---- MODULE Spec2Model ----
(***************************************************************************)
(* forc-tracing: the coloured console printers and the process-wide        *)
(* tracing subscriber installed by init_tracing_subscriber                 *)
(* (src/forc-tracing/src/lib.rs).                                          *)
(*                                                                         *)
(* Text is modelled structurally.  A filter expression is the sequence of  *)
(* its comma-separated segments; a segment is a record [lhs, rhs] for the  *)
(* text `lhs` or `lhs=rhs`; a target name is a sequence of name pieces, so *)
(* that "starts with" is the prefix relation on sequences.  An optional    *)
(* value is <<>> (None) or <<v>> (Some(v)).                                *)
(*                                                                         *)
(* The operators for EnvFilter (DirectiveParse, AddAll, parse_lossy,       *)
(* from_env_lossy, EnvFilterNew, enabled) and for SubscriberBuilder::init  *)
(* (install) follow the behaviour of the tracing-subscriber calls the      *)
(* source makes: lossy parsing drops a directive that does not parse, a    *)
(* builder adds its default directive, if it has one, only when no         *)
(* directive was parsed, the most specific matching directive decides, and *)
(* init panics when a global default subscriber is already set.            *)
(***************************************************************************)
EXTENDS Integers, Sequences, FiniteSets, TLC

VARIABLES
    RUST_LOG,      \* the environment variable: None or Some(expression)
    options,       \* the TracingSubscriberOptions of the installing call
    level_filter,  \* the level resolved by the installing call
    subscriber,    \* the global default subscriber: None or Some(record)
    record,        \* the last record the installed subscriber was handed
    wrote,         \* the streams that record was written to
    pc             \* "running", or "panicked" once a call has panicked

vars == <<RUST_LOG, options, level_filter, subscriber, record, wrote, pc>>

(* ------------------------------ bounds -------------------------------- *)

\* verbosity is an Option<u8>; the model draws it from None, 0..MaxVerbosity
MaxVerbosity == 3

(* ------------------------------ options ------------------------------- *)

None == <<>>
Some(x) == <<x>>
IsSome(o) == o # <<>>
Unwrap(o) == o[1]
unwrap_or(o, d) == IF IsSome(o) THEN Unwrap(o) ELSE d
\* Option<bool>::unwrap_or_default: bool::default() is false
unwrap_or_default(o) == IF IsSome(o) THEN Unwrap(o) ELSE FALSE
\* Option::or
OptionOr(a, b) == IF IsSome(a) THEN a ELSE b

(* ------------------------------ levels -------------------------------- *)

\* LevelFilter, ordered OFF < ERROR < WARN < INFO < DEBUG < TRACE;
\* a record's Level is one of ERROR..TRACE with the same order.
OFF == 0
ERROR == 1
WARN == 2
INFO == 3
DEBUG == 4
TRACE == 5

Levels == {ERROR, WARN, INFO, DEBUG, TRACE}
LevelFilters == {OFF} \cup Levels

\* LevelFilter::to_string
LevelToString(l) ==
    CASE l = OFF -> "off"
      [] l = ERROR -> "error"
      [] l = WARN -> "warn"
      [] l = INFO -> "info"
      [] l = DEBUG -> "debug"
      [] l = TRACE -> "trace"

LevelNames == {"off", "error", "warn", "info", "debug", "trace"}

\* the level a directive's level name parses to
ParseLevel(s) ==
    CASE s = "off" -> OFF
      [] s = "error" -> ERROR
      [] s = "warn" -> WARN
      [] s = "info" -> INFO
      [] s = "debug" -> DEBUG
      [] s = "trace" -> TRACE

(* --------------------------- writer routing --------------------------- *)

Stdio == "Stdio"
Stdout == "Stdout"
Stderr == "Stderr"
TracingWriterMode == {Stdio, Stdout, Stderr}

\* StdioTracingWriter::make_writer: the writer chosen without metadata
make_writer(writer_mode) ==
    IF writer_mode = Stderr THEN "stderr" ELSE "stdout"

\* variant: the comparison with WARN strict
make_writer_for_strict(writer_mode, level) ==
    IF writer_mode = Stderr \/ (writer_mode = Stdio /\ level < WARN)
    THEN "stderr"
    ELSE "stdout"

\* StdioTracingWriter::make_writer_for: the writer chosen for one record
make_writer_for(writer_mode, level) ==
    IF writer_mode = Stderr \/ (writer_mode = Stdio /\ level <= WARN)
    THEN "stderr"
    ELSE "stdout"

(* -------------------------- filter expressions ------------------------ *)

\* one comma-separated segment of a filter expression: `lhs` or `lhs=rhs`
Seg(lhs, rhs) == [lhs |-> lhs, rhs |-> rhs]
\* the segment that is a bare word (a level name or a target name)
Word(w) == Seg(<<w>>, None)
\* the empty segment, as in the text "" or before a leading comma
EmptySeg == Seg(<<>>, None)

\* a directive: a target prefix (<<>> for none) and the most verbose level on
Directive(target, level) == [target |-> target, level |-> level]

\* Directive::parse of one segment: Some(directive), or None when malformed
DirectiveParse(seg) ==
    IF ~IsSome(seg.rhs)
    THEN IF Len(seg.lhs) = 1 /\ seg.lhs[1] \in LevelNames
         THEN Some(Directive(<<>>, ParseLevel(seg.lhs[1])))
         ELSE Some(Directive(seg.lhs, TRACE))
    ELSE IF Unwrap(seg.rhs) \in LevelNames
         THEN Some(Directive(seg.lhs, ParseLevel(Unwrap(seg.rhs))))
         ELSE None

\* DirectiveSet::add: a directive replaces an earlier one for the same target
AddDirective(set, d) == {x \in set : x.target # d.target} \cup {d}

RECURSIVE AddAll_stop_at_error(_, _)
\* variant: parsing stops at the first segment that does not parse
AddAll_stop_at_error(set, segs) ==
    IF segs = <<>> THEN set
    ELSE LET s == Head(segs)
             p == DirectiveParse(s)
         IN  IF s = EmptySeg THEN AddAll_stop_at_error(set, Tail(segs))
             ELSE IF ~IsSome(p) THEN set
             ELSE AddAll_stop_at_error(AddDirective(set, Unwrap(p)), Tail(segs))

RECURSIVE AddAll(_, _)
\* the directive set after adding, in order, every segment that is not empty
\* and parses; a malformed segment is reported on stderr and dropped
AddAll(set, segs) ==
    IF segs = <<>> THEN set
    ELSE LET s == Head(segs)
             p == DirectiveParse(s)
         IN  IF s = EmptySeg \/ ~IsSome(p)
             THEN AddAll(set, Tail(segs))
             ELSE AddAll(AddDirective(set, Unwrap(p)), Tail(segs))

\* Builder::parse_lossy: the filter of the segments that parse; the builder's
\* default directive is added only when there is no directive at all
parse_lossy(default_directive, segs) ==
    LET set == AddAll({}, segs)
    IN  IF set = {} /\ IsSome(default_directive)
        THEN {Unwrap(default_directive)}
        ELSE set

\* the text of an unset variable read with unwrap_or_default: ""
EmptyText == <<EmptySeg>>

\* Builder::from_env_lossy: parse_lossy of the variable, "" when it is unset
from_env_lossy(default_directive, env) ==
    parse_lossy(default_directive, unwrap_or(env, EmptyText))

\* EnvFilter::builder(): a builder with no default directive
BuilderDefault == None

\* EnvFilter::new(text): lossy parse with the default directive `error`
EnvFilterNew(segs) == parse_lossy(Some(Directive(<<>>, ERROR)), segs)

IsPrefix(p, t) == Len(p) <= Len(t) /\ SubSeq(t, 1, Len(p)) = p

\* the directives of a filter that care about a target
DirectivesFor(filter, target) == {d \in filter : IsPrefix(d.target, target)}

\* EnvFilter::enabled for a record: the most specific matching directive
\* decides; with no matching directive the record is disabled
enabled(filter, target, level) ==
    LET ds == DirectivesFor(filter, target)
    IN  /\ ds # {}
        /\ LET d == CHOOSE x \in ds : \A y \in ds : Len(y.target) <= Len(x.target)
           IN  d.level >= level

(* ----------------------- init_tracing_subscriber ---------------------- *)

\* variant: verbosity takes precedence over log_level
resolve_level_verbosity_first(opts) ==
    OptionOr(IF opts.verbosity = Some(1) THEN Some(DEBUG)
             ELSE IF opts.verbosity = Some(2) THEN Some(TRACE)
             ELSE None,
             opts.log_level)

\* the level parsed from the options, if set
resolve_level(opts) ==
    OptionOr(opts.log_level,
             IF opts.verbosity = Some(1) THEN Some(DEBUG)
             ELSE IF opts.verbosity = Some(2) THEN Some(TRACE)
             ELSE None)

\* the three groups the options' level applies to
Groups == <<"forc", "sway", "test">>

\* variant: the first two groups in the other order
format_filter_swapped(env_log_level, l) ==
    env_log_level \o <<Seg(<<"sway">>, Some(LevelToString(l))),
                       Seg(<<"forc">>, Some(LevelToString(l))),
                       Seg(<<"test">>, Some(LevelToString(l)))>>

\* format!("{},forc={},sway={},test={}", env_log_level, l, l, l)
format_filter(env_log_level, l) ==
    env_log_level \o [i \in 1..Len(Groups) |-> Seg(<<Groups[i]>>, Some(LevelToString(l)))]

\* variant: `off` used as the base of the composite expression
filter_expr_silent_unscoped(opts, env) ==
    LET lf == resolve_level(opts)
    IN  IF IsSome(lf)
        THEN IF unwrap_or_default(opts.silent)
             THEN format_filter(<<Word(LevelToString(OFF))>>, Unwrap(lf))
             ELSE format_filter(unwrap_or(env, <<Word(LevelToString(INFO))>>), Unwrap(lf))
        ELSE unwrap_or(env, EmptyText)

\* variant: the resolved level, not `info`, as the base when RUST_LOG is unset
filter_expr_base_level(opts, env) ==
    LET lf == resolve_level(opts)
    IN  IF IsSome(lf)
        THEN IF unwrap_or_default(opts.silent)
             THEN <<Word(LevelToString(OFF))>>
             ELSE format_filter(unwrap_or(env, <<Word(LevelToString(Unwrap(lf)))>>),
                                Unwrap(lf))
        ELSE unwrap_or(env, EmptyText)

\* the filter expression the call parses
filter_expr(opts, env) ==
    LET lf == resolve_level(opts)
    IN  IF IsSome(lf)
        THEN IF unwrap_or_default(opts.silent)
             THEN <<Word(LevelToString(OFF))>>
             ELSE format_filter(unwrap_or(env, <<Word(LevelToString(INFO))>>), Unwrap(lf))
        ELSE unwrap_or(env, EmptyText)

\* the EnvFilter the call builds
env_filter(opts, env) ==
    LET lf == resolve_level(opts)
    IN  IF IsSome(lf)
        THEN IF unwrap_or_default(opts.silent)
             THEN EnvFilterNew(filter_expr(opts, env))
             ELSE parse_lossy(BuilderDefault, filter_expr(opts, env))
        ELSE from_env_lossy(BuilderDefault, env)

\* the subscriber the builder describes
Builder(opts, env, time) ==
    [ filter      |-> env_filter(opts, env),
      expr        |-> filter_expr(opts, env),
      ansi        |-> unwrap_or_default(opts.ansi),
      level       |-> FALSE,
      file        |-> FALSE,
      line_number |-> FALSE,
      target      |-> FALSE,
      time        |-> time,
      writer_mode |-> unwrap_or(opts.writer_mode, Stdio) ]

(* ------------------------------- inputs ------------------------------- *)

OptionOf(S) == {None} \cup {Some(x) : x \in S}

\* the values of RUST_LOG the model starts from:
\*   unset, "", "warn,hyper=debug", "forc_tracing=error",
\*   "hyper=loud" (malformed), "warn,hyper=loud" (one malformed directive)
EnvValues ==
    { None,
      Some(EmptyText),
      Some(<<Word("warn"), Seg(<<"hyper">>, Some("debug"))>>),
      Some(<<Seg(<<"forc", "_tracing">>, Some("error"))>>),
      Some(<<Seg(<<"hyper">>, Some("loud"))>>),
      Some(<<Word("warn"), Seg(<<"hyper">>, Some("loud"))>>) }

\* TracingSubscriberOptions
AllOptions ==
    [ verbosity    : OptionOf(0..MaxVerbosity),
      silent       : OptionOf(BOOLEAN),
      log_level    : OptionOf(LevelFilters),
      writer_mode  : OptionOf(TracingWriterMode),
      ansi         : OptionOf({TRUE}),
      display_time : OptionOf({TRUE}) ]

\* the options the model draws the first call's from: every combination of
\* verbosity, silent, log_level and writer_mode, with ansi, display_time or
\* neither switched on
OptionsSet == {o \in AllOptions : ~(IsSome(o.ansi) /\ IsSome(o.display_time))}

\* TracingSubscriberOptions::default()
DefaultOptions ==
    [ verbosity |-> None, silent |-> None, log_level |-> None,
      writer_mode |-> None, ansi |-> None, display_time |-> None ]

\* the options of a call made when a subscriber is already installed: such a
\* call panics in init() whatever its options, so a few stand for all
RepeatOptions ==
    { DefaultOptions,
      [DefaultOptions EXCEPT !.verbosity = Some(2), !.display_time = Some(TRUE)],
      [DefaultOptions EXCEPT !.log_level = Some(OFF), !.silent = Some(TRUE),
                             !.writer_mode = Some(Stderr)] }

\* this crate's module path, the target of the records its printers emit
ThisCrate == <<"forc", "_tracing">>

\* the targets records come from: this crate, a sibling language crate, the
\* test harness and a dependency
Targets == {ThisCrate, <<"sway", "_core">>, <<"test">>, <<"hyper">>}

Colours == {"Red", "Green", "Yellow"}

\* the value of `record` before the subscriber has seen any
NoRecord == [target |-> <<>>, level |-> OFF, colour |-> None]

(* ------------------------------- actions ------------------------------ *)

Init ==
    /\ RUST_LOG \in EnvValues
    /\ options = DefaultOptions
    /\ level_filter = None
    /\ subscriber = None
    /\ record = NoRecord
    /\ wrote = {}
    /\ pc = "running"

\* variant: a later call replaces the installed subscriber
install_overwriting(opts, builder) ==
    /\ subscriber' = Some(builder)
    /\ options' = opts
    /\ level_filter' = resolve_level(opts)
    /\ UNCHANGED pc

\* SubscriberBuilder::init: sets the global default subscriber, and panics
\* when one is already set
install(opts, builder) ==
    IF subscriber = None
    THEN /\ subscriber' = Some(builder)
         /\ options' = opts
         /\ level_filter' = resolve_level(opts)
         /\ UNCHANGED pc
    ELSE /\ pc' = "panicked"
         /\ UNCHANGED <<subscriber, options, level_filter>>

init_tracing_subscriber(opts) ==
    /\ pc = "running"
    /\ \/ /\ unwrap_or_default(opts.display_time)
          /\ install(opts, Builder(opts, RUST_LOG, TRUE))
       \/ /\ ~unwrap_or_default(opts.display_time)
          /\ install(opts, Builder(opts, RUST_LOG, FALSE))
    /\ UNCHANGED <<RUST_LOG, record, wrote>>

\* one record through the global dispatcher: with no subscriber installed
\* it goes to the no-op default and nothing happens; else the subscriber's
\* filter decides, and an enabled record is written to the writer that
\* make_writer_for picks for it
dispatch(target, level, colour) ==
    /\ pc = "running"
    /\ IF subscriber = None
       THEN UNCHANGED <<record, wrote>>
       ELSE /\ record' = [target |-> target, level |-> level, colour |-> colour]
            /\ wrote' = IF enabled(Unwrap(subscriber).filter, target, level)
                        THEN {make_writer_for(Unwrap(subscriber).writer_mode, level)}
                        ELSE {}
    /\ UNCHANGED <<RUST_LOG, options, level_filter, subscriber, pc>>

\* a record emitted by any other crate of the process
Emit(target, level) == dispatch(target, level, None)

println_std_out(colour) == dispatch(ThisCrate, INFO, Some(colour))
println_std_err(colour) == dispatch(ThisCrate, ERROR, Some(colour))

println_red == println_std_out("Red")
println_green == println_std_out("Green")
println_yellow_err == println_std_err("Yellow")
println_red_err == println_std_err("Red")

CallOptions == IF subscriber = None THEN OptionsSet ELSE RepeatOptions

Next ==
    \/ \E opts \in CallOptions : init_tracing_subscriber(opts)
    \/ \E t \in Targets, l \in Levels : Emit(t, l)
    \/ println_red
    \/ println_green
    \/ println_yellow_err
    \/ println_red_err

Spec == Init /\ [][Next]_vars

(* ------------------------------ properties ---------------------------- *)

Installed == IsSome(subscriber)
Sub == Unwrap(subscriber)
Resolved == IsSome(level_filter)
Silent == options.silent = Some(TRUE)

GroupNames == {"forc", "sway", "test"}
\* a target of one of the three groups
InGroup(t) == Len(t) >= 1 /\ t[1] \in GroupNames

\* the streams a record of a severity must go to under a writer mode option
ExpectedStream(mode, l) ==
    IF mode \in {None, Some(Stdio)}
    THEN (IF l \in {ERROR, WARN} THEN "stderr" ELSE "stdout")
    ELSE IF mode = Some(Stdout) THEN "stdout" ELSE "stderr"

\* C1: whatever the writer mode option and the severity, a record that is
\* written goes to exactly one stream: under Stdio, and with the option unset,
\* warn and error to stderr and info, debug, trace to stdout; under Stdout
\* always stdout; under Stderr always stderr.
C1_WriterSelection ==
    /\ \A m \in TracingWriterMode, l \in Levels :
          make_writer_for(m, l) = ExpectedStream(Some(m), l)
    /\ (Installed /\ wrote # {}) =>
          wrote = {ExpectedStream(options.writer_mode, record.level)}

C1_Witness ==
    /\ Installed
    /\ options.writer_mode = None
    /\ record.level = WARN
    /\ wrote = {"stderr"}

\* C2 (as claimed): with log_level unset the resolved level is: verbosity unset
\* or 0 -> unresolved, 1 -> debug, 2 -> trace, 3 and more -> trace.
C2_VerbosityLadder ==
    (Installed /\ options.log_level = None) =>
        level_filter =
            IF options.verbosity \in {None, Some(0)} THEN None
            ELSE IF options.verbosity = Some(1) THEN Some(DEBUG)
            ELSE Some(TRACE)

\* C3: an explicit log_level X is the resolved level whatever the verbosity,
\* and, unless silenced, it is the level of the forc, sway and test directives.
C3_ExplicitLevelWins ==
    (Installed /\ IsSome(options.log_level)) =>
        /\ level_filter = options.log_level
        /\ ~Silent =>
              \A g \in GroupNames :
                  Directive(<<g>>, Unwrap(options.log_level)) \in Sub.filter

C3_Witness ==
    /\ Installed
    /\ options.log_level = Some(WARN)
    /\ options.verbosity = Some(2)
    /\ options.silent = None
    /\ level_filter = Some(WARN)

\* C4: with silent true and a level resolved, nothing is ever written: the
\* installed filter disables every severity of every target, whatever the
\* resolved level and the value of RUST_LOG.
C4_SilentSuppressesAll ==
    (Installed /\ Silent /\ Resolved) =>
        /\ wrote = {}
        /\ \A t \in Targets, l \in Levels : ~enabled(Sub.filter, t, l)

C4_Witness ==
    /\ Installed /\ Silent
    /\ level_filter = Some(TRACE)
    /\ RUST_LOG = Some(<<Word("warn"), Seg(<<"hyper">>, Some("debug"))>>)
    /\ record.target = <<"hyper">>
    /\ record.level = ERROR
    /\ wrote = {}

\* the filter of the RUST_LOG expression alone, `info` when it is unset
EnvAlone == AddAll({}, unwrap_or(RUST_LOG, <<Word("info")>>))

\* C5 (as claimed): with a level L resolved and silent not true, a record of
\* a forc, sway or test target is enabled exactly when its severity is within
\* L, and a record of any other target exactly when RUST_LOG alone (info when
\* unset) enables it.
C5_ScopedLevel ==
    (Installed /\ Resolved /\ ~Silent) =>
        \A t \in Targets, l \in Levels :
            enabled(Sub.filter, t, l) <=>
                IF InGroup(t) THEN l <= Unwrap(level_filter)
                              ELSE enabled(EnvAlone, t, l)

\* RUST_LOG holds a directive for a longer prefix of the target than the
\* group name
EnvMoreSpecific(t) == \E d \in EnvAlone : IsPrefix(d.target, t) /\ Len(d.target) > 1

\* C5 (amended): as claimed, except that a forc, sway or test target for
\* which RUST_LOG holds a directive with a longer matching prefix is filtered
\* by RUST_LOG; and the last record was written exactly when so enabled.
C5_ScopedLevelUnlessMoreSpecific ==
    (Installed /\ Resolved /\ ~Silent) =>
        /\ \A t \in Targets, l \in Levels :
              enabled(Sub.filter, t, l) <=>
                  IF InGroup(t) /\ ~EnvMoreSpecific(t)
                  THEN l <= Unwrap(level_filter)
                  ELSE enabled(EnvAlone, t, l)
        /\ (options.verbosity = Some(1) /\ options.log_level = None
               /\ RUST_LOG = None /\ record.level = DEBUG) =>
              (wrote # {} <=> InGroup(record.target))

C5_Witness ==
    /\ Installed /\ ~Silent
    /\ options.verbosity = Some(1) /\ options.log_level = None
    /\ RUST_LOG = None
    /\ record.target = <<"hyper">> /\ record.level = DEBUG
    /\ wrote = {}

\* C6 (as claimed): with no level resolved the expression is RUST_LOG's, with
\* no forc, sway or test directive added, and with RUST_LOG unset every
\* target's records are enabled exactly at info, warn and error.
C6_EnvOnlyDefaultInfo ==
    (Installed /\ ~Resolved) =>
        /\ Sub.expr = unwrap_or(RUST_LOG, EmptyText)
        /\ \A d \in Sub.filter : d \in EnvAlone
        /\ RUST_LOG = None =>
              \A t \in Targets, l \in Levels :
                  enabled(Sub.filter, t, l) <=> l <= INFO

\* the three group segments at one level, spelled out
GroupSegs(name) ==
    <<Seg(<<"forc">>, Some(name)), Seg(<<"sway">>, Some(name)),
      Seg(<<"test">>, Some(name))>>

LevelName(l) == CHOOSE n \in LevelNames : ParseLevel(n) = l

\* C7 (as claimed): with a level L resolved the expression is
\* <base>,forc=L,sway=L,test=L with <base> the raw RUST_LOG value or `off`;
\* for verbosity 1 with silent unset it is debug,forc=debug,sway=debug,test=debug.
C7_ExpressionForm ==
    (Installed /\ Resolved) =>
        /\ \E base \in {RUST_LOG, Some(<<Word("off")>>)} :
              /\ IsSome(base)
              /\ Sub.expr = Unwrap(base) \o GroupSegs(LevelName(Unwrap(level_filter)))
        /\ (options.verbosity = Some(1) /\ options.log_level = None
               /\ options.silent = None /\ RUST_LOG = None) =>
              Sub.expr = <<Word("debug")>> \o GroupSegs("debug")

\* C7 (amended): with a level L resolved and silent not true the expression
\* is <base>,forc=L,sway=L,test=L with <base> the raw RUST_LOG value, or
\* `info` when RUST_LOG is unset; with silent true it is `off` alone; for
\* verbosity 1, silent unset and RUST_LOG unset it is
\* info,forc=debug,sway=debug,test=debug.
C7_ExpressionFormInfoBase ==
    (Installed /\ Resolved) =>
        /\ ~Silent =>
              Sub.expr = unwrap_or(RUST_LOG, <<Word("info")>>)
                            \o GroupSegs(LevelName(Unwrap(level_filter)))
        /\ Silent => Sub.expr = <<Word("off")>>
        /\ (options.verbosity = Some(1) /\ options.log_level = None
               /\ options.silent = None /\ RUST_LOG = None) =>
              Sub.expr = <<Word("info")>> \o GroupSegs("debug")

C7_Witness ==
    /\ Installed
    /\ options.verbosity = Some(1) /\ options.log_level = None
    /\ options.silent = None /\ RUST_LOG = None
    /\ Sub.expr = <<Word("info"), Seg(<<"forc">>, Some("debug")),
                    Seg(<<"sway">>, Some("debug")), Seg(<<"test">>, Some("debug"))>>

Malformed(seg) == seg # EmptySeg /\ ~IsSome(DirectiveParse(seg))
EnvMalformed ==
    IsSome(RUST_LOG) /\ \E i \in 1..Len(Unwrap(RUST_LOG)) : Malformed(Unwrap(RUST_LOG)[i])

InForce(expr, i) ==
    /\ expr[i] # EmptySeg
    /\ IsSome(DirectiveParse(expr[i]))
    /\ \A j \in (i + 1)..Len(expr) :
          (expr[j] # EmptySeg /\ IsSome(DirectiveParse(expr[j]))) =>
              Unwrap(DirectiveParse(expr[j])).target # Unwrap(DirectiveParse(expr[i])).target

C9_InstalledOnce ==
    [][ /\ Installed => /\ subscriber' = subscriber
                        /\ options' = options
                        /\ level_filter' = level_filter
        /\ pc' # pc => (Installed /\ pc' = "panicked")
        /\ (~Installed /\ subscriber' # subscriber) => pc' = "running" ]_vars

C9_Witness ==
    /\ Installed
    /\ pc = "panicked"
    /\ options.verbosity = Some(1)
    /\ record # NoRecord

\* C10 (as claimed): with log_level unset and verbosity unset, 0 or 3 and
\* more, the installed filter is the one installed for the same options with
\* silent unset, and with silent true and RUST_LOG unset some record is
\* still enabled.
C10_SilentNeedsResolvedLevel ==
    (Installed /\ options.log_level = None
        /\ (options.verbosity \in {None, Some(0)}
            \/ (IsSome(options.verbosity) /\ Unwrap(options.verbosity) >= 3))) =>
        /\ Sub.filter = env_filter([options EXCEPT !.silent = None], RUST_LOG)
        /\ (Silent /\ RUST_LOG = None) =>
              \E t \in Targets, l \in Levels : enabled(Sub.filter, t, l)

====
